---- MODULE Spec2Model ----
(***************************************************************************)
(* Model of scripts/k8s-upgrade/main.py: the multi-host Kubernetes upgrade *)
(* runner.  main() is a sequential program; every remote command, every    *)
(* connection and every prompt is one step of the state machine, and the   *)
(* trace variable records what the run did to the outside world.           *)
(* Strings that the code parses (command output, version strings) are      *)
(* sequences of one-character strings.                                     *)
(***************************************************************************)
EXTENDS Integers, Sequences, FiniteSets, TLC

\* ---------------------------------------------------------------- bounds
\* Number of distinct hosts an inventory may list.
NumHosts == 3

\* ------------------------------------------------------------ input sets
HostNames == <<"h1", "h2", "h3", "h4", "h5">>

Hosts == {HostNames[i] : i \in 1..NumHosts}

Roles == {"control", "worker"}

\* Exit statuses a remote command may return.
ExitStatuses == {0, 1}

\* Outcomes of an attempt that either returns or raises.
Outcomes == {"ok", "raise"}

Digits == {"0", "1", "2", "3", "4", "5", "6", "7", "8", "9"}

Spaces == {" ", "\n"}

\* Contents of /etc/apt/sources.list.d/kubernetes.list as `cat` prints it.
SourcesContents ==
  { <<"/", "v", "1", ".", "2", "8", "/", "d", "e", "b", "/", "\n">>,
    <<"/", "v", "1", "/", "d", "e", "b", "/">> }

\* First line of `apt-cache madison kubeadm`.
MadisonOutputs ==
  { <<" ", "|", " ", "1", ".", "2", "9", ".", "4", "-", "1", "\n">>,
    <<"k", "|", "2", ".", "0", ".", "1", "0", "-", "1">>,
    <<"|", " ", "1", ".", "2", "9", "-", "1">> }

\* ------------------------------------------------------------ text helpers
Min(a, b) == IF a <= b THEN a ELSE b

\* First index >= i of s that holds no element of class (Len(s)+1 if none).
RECURSIVE RunEnd(_, _, _)
RunEnd(s, i, class) ==
  IF i <= Len(s) /\ s[i] \in class THEN RunEnd(s, i + 1, class) ELSE i

\* s has the literal lit at index i.
HasAt(s, i, lit) ==
  /\ i >= 1
  /\ i + Len(lit) - 1 <= Len(s)
  /\ \A k \in 1..Len(lit) : s[i + k - 1] = lit[k]

\* str.strip(): drop leading and trailing whitespace.
Strip(s) ==
  LET NonSp == {i \in 1..Len(s) : s[i] \notin Spaces}
  IN  IF NonSp = {} THEN <<>>
      ELSE SubSeq(s, CHOOSE i \in NonSp : \A j \in NonSp : i <= j,
                     CHOOSE i \in NonSp : \A j \in NonSp : i >= j)

\* str.split(sep) for a one-character separator.
RECURSIVE Split(_, _)
Split(s, sep) ==
  LET Seps == {i \in 1..Len(s) : s[i] = sep}
  IN  IF Seps = {} THEN <<s>>
      ELSE LET i == CHOOSE k \in Seps : \A j \in Seps : k <= j
           IN  <<SubSeq(s, 1, i - 1)>> \o Split(SubSeq(s, i + 1, Len(s)), sep)

\* sep.join(parts)
RECURSIVE Join(_, _)
Join(parts, sep) ==
  IF Len(parts) = 0 THEN <<>>
  ELSE IF Len(parts) = 1 THEN parts[1]
  ELSE parts[1] \o <<sep>> \o Join(Tail(parts), sep)

\* parts[:n]
Take(parts, n) == SubSeq(parts, 1, Min(n, Len(parts)))

NoMatch == <<>>

\* End (exclusive) of a match of \d+\.\d+ starting at i, or 0.
TwoComponentEnd(s, i) ==
  LET b == RunEnd(s, i, Digits)
      c == RunEnd(s, b + 1, Digits)
  IN  IF b > i /\ HasAt(s, b, <<".">>) /\ c > b + 1 THEN c ELSE 0

\* re.search(r"v(\d+\.\d+)/deb", content).group(1), or NoMatch.
SearchSourcesVersion(content) ==
  LET Hit(i) == /\ HasAt(content, i, <<"v">>)
                /\ TwoComponentEnd(content, i + 1) # 0
                /\ HasAt(content, TwoComponentEnd(content, i + 1), <<"/", "d", "e", "b">>)
      I == {i \in 1..Len(content) : Hit(i)}
  IN  IF I = {} THEN NoMatch
      ELSE LET i == CHOOSE k \in I : \A j \in I : k <= j
           IN  SubSeq(content, i + 1, TwoComponentEnd(content, i + 1) - 1)

\* re.search(r"\|\s*(\d+\.\d+\.\d+)-", output).group(1), or NoMatch.
SearchMadisonVersion(output) ==
  LET Start(i) == RunEnd(output, i + 1, Spaces)
      Mid(i) == TwoComponentEnd(output, Start(i))
      End(i) == RunEnd(output, Mid(i) + 1, Digits)
      Hit(i) == /\ HasAt(output, i, <<"|">>)
                /\ Mid(i) # 0
                /\ HasAt(output, Mid(i), <<".">>)
                /\ End(i) > Mid(i) + 1
                /\ HasAt(output, End(i), <<"-">>)
      I == {i \in 1..Len(output) : Hit(i)}
  IN  IF I = {} THEN NoMatch
      ELSE LET i == CHOOSE k \in I : \A j \in I : k <= j
           IN  SubSeq(output, Start(i), End(i) - 1)

\* Variant: the minor cut by length, latest_version[:4].
MinorOf_FirstFourChars(latest) == SubSeq(latest, 1, Min(4, Len(latest)))

\* ".".join(latest_version.split(".")[:2])
MinorOf(latest) == Join(Take(Split(latest, "."), 2), ".")


\* ------------------------------------------------------------------ state
VARIABLES
  inventory,          \* lines of inventory.txt, each line.strip().split()
  nodes,              \* main: nodes = read_inventory()
  pc,                 \* position of main()
  exit_code,          \* process exit code, meaningful once pc = "done"
  trace,              \* everything the run did, in order
  conns,              \* conns[s] = host that session s was opened to
  open,               \* sessions connected and not closed
  client,             \* main: client (0 before ssh_connect)
  c,                  \* main: c of the two loops (0 before ssh_connect)
  current_version,    \* main: current_version
  latest_version,     \* main: latest_version
  new_minor_version,  \* main: new_minor_version
  all_hosts,          \* main: all_hosts
  idx,                \* position of the running for loop in its list
  ustep,              \* position of upgrade_k8s_node
  call                \* arguments of the running upgrade_k8s_node call

\* State of the sources file that update_k8s_sources rewrites on one host.
VARIABLES
  k8s_list,           \* lines of /etc/apt/sources.list.d/kubernetes.list
  target_minor,       \* new_minor_version the rewriter is called with
  rewrite_calls,      \* calls of update_k8s_sources so far
  rewrites            \* status and file content after each sed -i run so far

rewriteVars == <<k8s_list, target_minor, rewrite_calls, rewrites>>

\* State of update-k8s-node.py and of the node it runs on.
VARIABLES
  marker,             \* /var/run/reboot-required exists
  n_pc,               \* position of the script ("idle" between runs)
  n_run,              \* runs started so far
  n_log,              \* what the runs did, in order
  changes,            \* main: changes
  message             \* main: changes_notification_message

nodeVars == <<marker, n_pc, n_run, n_log, changes, message>>

\* State of scripts/update-ebuild/main.py, of the overlay and of upstream.
VARIABLES
  pkgdir,             \* OVERLAY/category/pn: whether it exists, name -> text
  upstream,           \* what the source-hosting API has: release tag, tags
  e_pc,               \* position of the script ("idle" between runs)
  e_run,              \* runs started so far
  e_log,              \* what the runs did, in order
  versions,           \* main: versions
  basever,            \* main: basever
  repo,               \* main: repo
  latest_tag,         \* main: latest_tag (<<>> when None)
  newpv               \* main: newpv ("9999" in the else branch)

ebuildVars == <<pkgdir, upstream, e_pc, e_run, e_log, versions, basever, repo,
                latest_tag, newpv>>

\* Variables of the programs other than the fleet runner.
otherVars == <<rewriteVars, nodeVars, ebuildVars>>

fleetVars == <<inventory, nodes, pc, exit_code, trace, conns, open, client, c,
               current_version, latest_version, new_minor_version, all_hosts,
               idx, ustep, call>>

vars == <<fleetVars, otherVars>>

\* -------------------------------------------------- update_k8s_sources()
\* Lines a kubernetes.list may hold.
SourcesLines ==
  { <<"d", " ", "/", "v", "1", ".", "2", "8", "/", "d", "e", "b", "/", " ", "/">>,
    <<"/", "v", "1", ".", "2", "9", "/", "d", "e", "b", "/">>,
    <<"/", "v", "1", ".", "2", "7", "/", "d", "e", "b", "/", "/", "v", "1", ".", "2", "8", "/", "d", "e", "b", "/">>,
    <<"/", "v", "1", ".", "2", ".", "3", "/", "d", "e", "b", "/">>,
    <<"/", "v", "1", "/", "d", "e", "b", "/">>,
    <<"#">> }

\* Most lines a kubernetes.list holds.
MaxFileLines == 2

\* Most runs of the rewriter on one file.
MaxRewrites == 3

K8sLists == UNION {[1..n -> SourcesLines] : n \in 0..MaxFileLines}

\* Full versions the package index may resolve to.
FullVersions ==
  { <<"1", ".", "2", "9", ".", "4">>, <<"2", ".", "0", ".", "1", "0">>,
    <<"1", ".", "2", "8", ".", "0">> }

\* Variant: the replacement loses the v of the version token.
SedLine_NoV(line, minor) ==
  LET End(i) == TwoComponentEnd(line, i + 2)
      Hit(i) == /\ HasAt(line, i, <<"/", "v">>)
                /\ End(i) # 0
                /\ HasAt(line, End(i), <<"/", "d", "e", "b", "/">>)
      I == {i \in 1..Len(line) : Hit(i)}
  IN  IF I = {} THEN line
      ELSE LET i == CHOOSE k \in I : \A j \in I : k <= j
           IN  SubSeq(line, 1, i - 1) \o <<"/">> \o minor
               \o <<"/", "d", "e", "b", "/">> \o SubSeq(line, End(i) + 5, Len(line))

\* sed 's|/v[0-9]\+\.[0-9]\+/deb/|/v{minor}/deb/|' on one line: the leftmost
\* match is replaced, the rest of the line is kept.
SedLine(line, minor) ==
  LET End(i) == TwoComponentEnd(line, i + 2)
      Hit(i) == /\ HasAt(line, i, <<"/", "v">>)
                /\ End(i) # 0
                /\ HasAt(line, End(i), <<"/", "d", "e", "b", "/">>)
      I == {i \in 1..Len(line) : Hit(i)}
  IN  IF I = {} THEN line
      ELSE LET i == CHOOSE k \in I : \A j \in I : k <= j
           IN  SubSeq(line, 1, i - 1) \o <<"/", "v">> \o minor
               \o <<"/", "d", "e", "b", "/">> \o SubSeq(line, End(i) + 5, Len(line))

\* sed -i on the whole file: every line is rewritten on its own.
SedFile(lines, minor) == [i \in 1..Len(lines) |-> SedLine(lines[i], minor)]

\* No rewriter is running.
RewriteIdle ==
  /\ k8s_list = <<>>
  /\ target_minor = NoMatch
  /\ rewrite_calls = 0
  /\ rewrites = <<>>

\* update-k8s-node.py is not running and has never run.
NodeIdle ==
  /\ marker = FALSE
  /\ n_pc = "off"
  /\ n_run = 0
  /\ n_log = <<>>
  /\ changes = <<>>
  /\ message = <<>>

\* update-ebuild is not running and has never run.
EbuildIdle ==
  /\ pkgdir = [exists |-> FALSE, files |-> <<>>]
  /\ upstream = [release |-> <<>>, tags |-> <<>>]
  /\ e_pc = "off"
  /\ e_run = 0
  /\ e_log = <<>>
  /\ versions = <<>>
  /\ basever = <<>>
  /\ repo = ""
  /\ latest_tag = <<>>
  /\ newpv = <<>>

\* Nothing but the fleet runner runs.
OthersIdle == RewriteIdle /\ NodeIdle /\ EbuildIdle

\* ------------------------------------------------------------- inventories
\* Well-formed inventories: every line is <<host, role>>, no host twice.
WellFormedInventories ==
  UNION { { inv \in [1..n -> {<<h, r>> : h \in Hosts, r \in Roles}] :
              \A i, j \in 1..n : inv[i][1] = inv[j][1] => i = j } :
          n \in 0..NumHosts }

\* Inventories with a line read_inventory cannot take, or with a blank line.
OtherInventories ==
  { <<<<"h1", "control">>, <<>>, <<"h2", "worker">>>>,
    <<<<"h1", "control">>, <<"h2", "etcd">>>>,
    <<<<"h1", "control">>, <<"h2">>>>,
    <<<<"h1", "control">>, <<"h2", "worker", "x">>>> }

Inventories == WellFormedInventories \cup OtherInventories

NoNodes == [err |-> FALSE, control |-> <<>>, worker |-> <<>>]

\* Most lines of an inventory file when every shape of line is tried.
MaxLines == 3

\* Shapes of one line of inventory.txt after strip().split(): blank, host and
\* role, unknown role, one token, three tokens, role before host.
InventoryLines ==
  { <<>>,
    <<"h1", "control">>, <<"h1", "worker">>,
    <<"h2", "control">>, <<"h2", "worker">>,
    <<"h1", "etcd">>, <<"h2">>, <<"h1", "worker", "x">>, <<"control", "h1">> }

AnyInventories == UNION {[1..n -> InventoryLines] : n \in 0..MaxLines}

\* Variant: a blank line ends the loop (break for continue).
RECURSIVE read_inventory_from_Break(_, _)
read_inventory_from_Break(lines, acc) ==
  IF lines = <<>> THEN acc
  ELSE LET line == Head(lines)
       IN  IF line = <<>> THEN acc
           ELSE IF Len(line) # 2 THEN [acc EXCEPT !.err = TRUE]
           ELSE IF line[2] \notin Roles THEN [acc EXCEPT !.err = TRUE]
           ELSE read_inventory_from_Break(Tail(lines),
                  IF line[2] = "control"
                  THEN [acc EXCEPT !.control = Append(@, line[1])]
                  ELSE [acc EXCEPT !.worker = Append(@, line[1])])

\* Variant: a host with an unknown role is taken as a worker.
RECURSIVE read_inventory_from_DefaultWorker(_, _)
read_inventory_from_DefaultWorker(lines, acc) ==
  IF lines = <<>> THEN acc
  ELSE LET line == Head(lines)
       IN  IF line = <<>> THEN read_inventory_from_DefaultWorker(Tail(lines), acc)
           ELSE IF Len(line) # 2 THEN [acc EXCEPT !.err = TRUE]
           ELSE read_inventory_from_DefaultWorker(Tail(lines),
                  IF line[2] = "control"
                  THEN [acc EXCEPT !.control = Append(@, line[1])]
                  ELSE [acc EXCEPT !.worker = Append(@, line[1])])

\* read_inventory(): group the hosts by role in line order; a line that does
\* not unpack into two tokens or names an unknown role raises ValueError.
RECURSIVE read_inventory_from(_, _)
read_inventory_from(lines, acc) ==
  IF lines = <<>> THEN acc
  ELSE LET line == Head(lines)
       IN  IF line = <<>> THEN read_inventory_from(Tail(lines), acc)
           ELSE IF Len(line) # 2 THEN [acc EXCEPT !.err = TRUE]
           ELSE IF line[2] \notin Roles THEN [acc EXCEPT !.err = TRUE]
           ELSE read_inventory_from(Tail(lines),
                  IF line[2] = "control"
                  THEN [acc EXCEPT !.control = Append(@, line[1])]
                  ELSE [acc EXCEPT !.worker = Append(@, line[1])])

read_inventory(lines) == read_inventory_from(lines, NoNodes)

\* --------------------------------------------------------------- events
NoHost == ""

NoArg == <<>>

NoOut == <<>>

\* kind: what was done; host, sess: where; cmd, arg: the command and the
\* version it was formatted with; status: 0 or the failure; out: its stdout.
Ev(kind, host, sess, cmd, arg, status, out) ==
  [kind |-> kind, host |-> host, sess |-> sess, cmd |-> cmd, arg |-> arg,
   status |-> status, out |-> out]

NoCall == [client |-> 0, kube_version |-> NoMatch, host |-> NoHost,
           is_control |-> FALSE]

\* main() is entered: nothing read, nothing done.
MainEntry ==
  /\ nodes = NoNodes
  /\ pc = "read_inventory"
  /\ exit_code = 0
  /\ trace = <<>>
  /\ conns = <<>>
  /\ open = {}
  /\ client = 0
  /\ c = 0
  /\ current_version = NoMatch
  /\ latest_version = NoMatch
  /\ new_minor_version = NoMatch
  /\ all_hosts = <<>>
  /\ idx = 0
  /\ ustep = "none"
  /\ call = NoCall

Init ==
  /\ OthersIdle
  /\ inventory \in Inventories
  /\ MainEntry

\* Variant: sys.exit() without a code.
Exit_Zero(code) ==
  /\ pc' = "done"
  /\ exit_code' = 0

\* sys.exit(code), or an exception nobody catches (code 1).
Exit(code) ==
  /\ pc' = "done"
  /\ exit_code' = code

\* Variant: the exit status is logged but the run goes on.
run_cmd_IgnoreStatus(status, output) == [exit |-> FALSE, out |-> Strip(output)]

\* run_cmd: what the caller gets for a command that returned `status` and
\* printed `output`: sys.exit(1) on a non-zero status, else output.strip().
run_cmd(status, output) ==
  IF status # 0 THEN [exit |-> TRUE, out |-> <<>>]
  ELSE [exit |-> FALSE, out |-> Strip(output)]

\* ~/.ssh/config as load_ssh_config parsed it: the options set for a host
\* alias; a host without an entry, or an entry without an option, gets the
\* defaults of get_ssh_params.
SshConfigFile ==
  [h \in {"h1", "h2"} |->
     IF h = "h1"
     THEN [hostname |-> <<"10.0.0.1">>, user |-> <<"admin">>,
           identityfile |-> <<"~/.ssh/k8s">>, port |-> <<"2222">>]
     ELSE [hostname |-> <<>>, user |-> <<"ops">>,
           identityfile |-> <<>>, port |-> <<>>]]

\* cfg.get(option, default) on the lookup of host
CfgGet(ssh_config, host, option, default) ==
  IF host \in DOMAIN ssh_config /\ ssh_config[host][option] # <<>>
  THEN ssh_config[host][option][1]
  ELSE default

\* get_ssh_params(ssh_config, host): (hostname, user, keyfile, port)
get_ssh_params(ssh_config, host) ==
  <<CfgGet(ssh_config, host, "hostname", host),
    CfgGet(ssh_config, host, "user", "getuser"),
    CfgGet(ssh_config, host, "identityfile", "~/.ssh/id_rsa"),
    CfgGet(ssh_config, host, "port", "22")>>

\* Variant: the session is opened with the tuple resolved for the first
\* control host.
ConnectEvents_Stale(host, outcome) ==
  <<Ev("get_ssh_params", host, 0, "", NoArg, 0, get_ssh_params(SshConfigFile, host)),
    Ev("connect", host, Len(conns) + 1, "",
       get_ssh_params(SshConfigFile, nodes.control[1]),
       IF outcome = "ok" THEN 0 ELSE 1, NoOut)>>

\* hostname, user, keyfile, port = get_ssh_params(ssh_config, host);
\* ssh_connect(hostname, user, keyfile, port): the two events (the tuple
\* returned, the tuple connected with), and the number of the new session.
ConnectEvents(host, outcome) ==
  <<Ev("get_ssh_params", host, 0, "", NoArg, 0, get_ssh_params(SshConfigFile, host)),
    Ev("connect", host, Len(conns) + 1, "", get_ssh_params(SshConfigFile, host),
       IF outcome = "ok" THEN 0 ELSE 1, NoOut)>>


\* Variant: the session is never closed.
Closed_Leak(sess) == open

\* c.close() / client.close(): the sessions left open
Closed(sess) == open \ {sess}

\* Variant: workers listed first.
AllHosts_WorkersFirst(n) == n.worker \o n.control

\* all_hosts = nodes["control"] + nodes["worker"]
AllHosts(n) == n.control \o n.worker

\* ---------------------------------------------------------------- main()
\* nodes = read_inventory()
ReadInventory ==
  /\ pc = "read_inventory"
  /\ LET r == read_inventory(inventory)
     IN  IF r.err
         THEN Exit(1) /\ UNCHANGED nodes
         ELSE /\ nodes' = r
              /\ pc' = "check_control"
              /\ UNCHANGED exit_code
  /\ UNCHANGED <<otherVars, inventory, trace, conns, open, client, c, current_version,
                 latest_version, new_minor_version, all_hosts, idx, ustep, call>>

\* Variant: the empty control list is not checked.
CheckControl_NoAbort ==
  /\ pc = "check_control"
  /\ pc' = "load_ssh_config"
  /\ UNCHANGED <<otherVars, inventory, nodes, exit_code, trace, conns, open, client, c,
                 current_version, latest_version, new_minor_version,
                 all_hosts, idx, ustep, call>>

\* if not nodes["control"]: sys.exit(1)
CheckControl ==
  /\ pc = "check_control"
  /\ IF nodes.control = <<>>
     THEN Exit(1)
     ELSE pc' = "load_ssh_config" /\ UNCHANGED exit_code
  /\ UNCHANGED <<otherVars, inventory, nodes, trace, conns, open, client, c,
                 current_version, latest_version, new_minor_version,
                 all_hosts, idx, ustep, call>>

\* ssh_config = load_ssh_config(); open() raises when ~/.ssh/config is absent
LoadSshConfig ==
  /\ pc = "load_ssh_config"
  /\ \E outcome \in Outcomes :
       /\ trace' = Append(trace, Ev("load_ssh_config", NoHost, 0, "", NoArg,
                                    IF outcome = "ok" THEN 0 ELSE 1, NoOut))
       /\ IF outcome = "ok"
          THEN pc' = "getpass" /\ UNCHANGED exit_code
          ELSE Exit(1)
  /\ UNCHANGED <<otherVars, inventory, nodes, conns, open, client, c, current_version,
                 latest_version, new_minor_version, all_hosts, idx, ustep, call>>

\* sudo_password = getpass.getpass(...)
GetPass ==
  /\ pc = "getpass"
  /\ trace' = Append(trace, Ev("getpass", NoHost, 0, "", NoArg, 0, NoOut))
  /\ pc' = "connect_first"
  /\ UNCHANGED <<otherVars, inventory, nodes, exit_code, conns, open, client, c,
                 current_version, latest_version, new_minor_version,
                 all_hosts, idx, ustep, call>>

\* control_host = nodes["control"][0]; client = ssh_connect(get_ssh_params(..))
ConnectFirst ==
  /\ pc = "connect_first"
  /\ \E outcome \in Outcomes :
       LET control_host == nodes.control[1]
       IN  /\ trace' = trace \o ConnectEvents(control_host, outcome)
           /\ IF outcome = "ok"
              THEN /\ conns' = Append(conns, control_host)
                   /\ open' = open \cup {Len(conns) + 1}
                   /\ client' = Len(conns) + 1
                   /\ pc' = "get_current"
                   /\ UNCHANGED exit_code
              ELSE /\ Exit(1)
                   /\ UNCHANGED <<conns, open, client>>
  /\ UNCHANGED <<otherVars, inventory, nodes, c, current_version, latest_version,
                 new_minor_version, all_hosts, idx, ustep, call>>

\* current_version = get_current_k8s_version(client, sudo_password, control_host)
GetCurrentVersion ==
  /\ pc = "get_current"
  /\ \E status \in ExitStatuses, content \in SourcesContents :
       LET r == run_cmd(status, content)
           m == SearchSourcesVersion(r.out)
       IN  /\ trace' = Append(trace, Ev("cmd", nodes.control[1], client,
                                        "cat", NoArg, status, content))
           /\ IF r.exit \/ m = NoMatch
              THEN Exit(1) /\ UNCHANGED current_version
              ELSE /\ current_version' = m
                   /\ pc' = "get_latest"
                   /\ UNCHANGED exit_code
  /\ UNCHANGED <<otherVars, inventory, nodes, conns, open, client, c, latest_version,
                 new_minor_version, all_hosts, idx, ustep, call>>

\* latest_version = get_latest_k8s_version(...); all_hosts = ...;
\* new_minor_version = ".".join(latest_version.split(".")[:2])
GetLatestVersion ==
  /\ pc = "get_latest"
  /\ \E status \in ExitStatuses, output \in MadisonOutputs :
       LET r == run_cmd(status, output)
           m == SearchMadisonVersion(r.out)
       IN  /\ trace' = Append(trace, Ev("cmd", nodes.control[1], client,
                                        "apt-cache madison", NoArg, status, output))
           /\ IF r.exit \/ m = NoMatch
              THEN /\ Exit(1)
                   /\ UNCHANGED <<latest_version, new_minor_version,
                                  all_hosts, idx>>
              ELSE /\ latest_version' = m
                   /\ all_hosts' = AllHosts(nodes)
                   /\ new_minor_version' = MinorOf(m)
                   /\ idx' = 1
                   /\ pc' = "sources_connect"
                   /\ UNCHANGED exit_code
  /\ UNCHANGED <<otherVars, inventory, nodes, conns, open, client, c, current_version,
                 ustep, call>>

\* for host in all_hosts: c = ssh_connect(get_ssh_params(ssh_config, host))
SourcesConnect ==
  /\ pc = "sources_connect"
  /\ \E outcome \in Outcomes :
       LET host == all_hosts[idx]
       IN  /\ trace' = trace \o ConnectEvents(host, outcome)
           /\ IF outcome = "ok"
              THEN /\ conns' = Append(conns, host)
                   /\ open' = open \cup {Len(conns) + 1}
                   /\ c' = Len(conns) + 1
                   /\ pc' = "sources_update"
                   /\ UNCHANGED exit_code
              ELSE /\ Exit(1)
                   /\ UNCHANGED <<conns, open, c>>
  /\ UNCHANGED <<otherVars, inventory, nodes, client, current_version, latest_version,
                 new_minor_version, all_hosts, idx, ustep, call>>

\* update_k8s_sources(c, new_minor_version, sudo_password, host): one sed -i
SourcesUpdate ==
  /\ pc = "sources_update"
  /\ \E status \in ExitStatuses :
       /\ trace' = Append(trace, Ev("cmd", all_hosts[idx], c, "sed -i",
                                    new_minor_version, status, NoOut))
       /\ IF run_cmd(status, <<>>).exit
          THEN Exit(1)
          ELSE pc' = "sources_close" /\ UNCHANGED exit_code
  /\ UNCHANGED <<otherVars, inventory, nodes, conns, open, client, c, current_version,
                 latest_version, new_minor_version, all_hosts, idx, ustep, call>>

\* c.close(); next host of all_hosts, or on to
\* upgrade_k8s_node(client, latest_version, sudo_password, control_host, is_control=True)
SourcesClose ==
  /\ pc = "sources_close"
  /\ trace' = Append(trace, Ev("close", all_hosts[idx], c, "", NoArg, 0, NoOut))
  /\ open' = Closed(c)
  /\ IF idx < Len(all_hosts)
     THEN /\ idx' = idx + 1
          /\ pc' = "sources_connect"
          /\ UNCHANGED <<ustep, call>>
     ELSE /\ idx' = 0
          /\ pc' = "upgrade_control"
          /\ ustep' = "remove_hold"
          /\ call' = [client |-> client, kube_version |-> latest_version,
                      host |-> nodes.control[1], is_control |-> TRUE]
  /\ UNCHANGED <<otherVars, inventory, nodes, exit_code, conns, client, c,
                 current_version, latest_version, new_minor_version, all_hosts>>


\* ------------------------------------------------------ upgrade_k8s_node()
\* Variant: the is_control tests are dropped, every host takes the control path.
NextUStep_AlwaysControl(step, is_control) ==
  CASE step = "remove_hold" -> "apt_update"
    [] step = "apt_update" -> "install_kubeadm"
    [] step = "install_kubeadm" -> "drain"
    [] step = "drain" -> "apply"
    [] step = "apply" -> "install_kubelet_kubectl"
    [] step = "install_kubelet_kubectl" -> "daemon_reload"
    [] step = "daemon_reload" -> "restart_kubelet"
    [] step = "restart_kubelet" -> "add_hold"
    [] step = "add_hold" -> "uncordon"
    [] step = "uncordon" -> "return"

\* Variant: add_hold is not called.
NextUStep_NoRehold(step, is_control) ==
  CASE step = "remove_hold" -> "apt_update"
    [] step = "apt_update" -> "install_kubeadm"
    [] step = "install_kubeadm" ->
         IF is_control THEN "drain" ELSE "install_kubelet_kubectl"
    [] step = "drain" -> "apply"
    [] step = "apply" -> "install_kubelet_kubectl"
    [] step = "install_kubelet_kubectl" -> "daemon_reload"
    [] step = "daemon_reload" -> "restart_kubelet"
    [] step = "restart_kubelet" -> IF is_control THEN "uncordon" ELSE "return"
    [] step = "add_hold" -> IF is_control THEN "uncordon" ELSE "return"
    [] step = "uncordon" -> "return"

\* The statement after `step` in upgrade_k8s_node, by the is_control tests.
NextUStep(step, is_control) ==
  CASE step = "remove_hold" -> "apt_update"
    [] step = "apt_update" -> "install_kubeadm"
    [] step = "install_kubeadm" ->
         IF is_control THEN "drain" ELSE "install_kubelet_kubectl"
    [] step = "drain" -> "apply"
    [] step = "apply" -> "install_kubelet_kubectl"
    [] step = "install_kubelet_kubectl" -> "daemon_reload"
    [] step = "daemon_reload" -> "restart_kubelet"
    [] step = "restart_kubelet" -> "add_hold"
    [] step = "add_hold" -> IF is_control THEN "uncordon" ELSE "return"
    [] step = "uncordon" -> "return"

\* Variant: remove_hold and add_hold run each other's command.
CmdOf_HoldSwapped(step) ==
  CASE step = "remove_hold" -> "apt-mark hold"
    [] step = "apt_update" -> "apt-get update"
    [] step = "install_kubeadm" -> "apt-get install kubeadm"
    [] step = "drain" -> "kubectl drain"
    [] step = "apply" -> "kubeadm upgrade apply"
    [] step = "install_kubelet_kubectl" -> "apt-get install kubelet kubectl"
    [] step = "daemon_reload" -> "systemctl daemon-reload"
    [] step = "restart_kubelet" -> "systemctl restart kubelet"
    [] step = "add_hold" -> "apt-mark unhold"
    [] step = "uncordon" -> "kubectl uncordon"

\* The remote command each statement of upgrade_k8s_node runs.
CmdOf(step) ==
  CASE step = "remove_hold" -> "apt-mark unhold"
    [] step = "apt_update" -> "apt-get update"
    [] step = "install_kubeadm" -> "apt-get install kubeadm"
    [] step = "drain" -> "kubectl drain"
    [] step = "apply" -> "kubeadm upgrade apply"
    [] step = "install_kubelet_kubectl" -> "apt-get install kubelet kubectl"
    [] step = "daemon_reload" -> "systemctl daemon-reload"
    [] step = "restart_kubelet" -> "systemctl restart kubelet"
    [] step = "add_hold" -> "apt-mark hold"
    [] step = "uncordon" -> "kubectl uncordon"

\* The packages a command of upgrade_k8s_node names.
PackagesOf(cmd) ==
  CASE cmd = "apt-mark unhold" -> {"kubeadm", "kubelet", "kubectl"}
    [] cmd = "apt-get install kubeadm" -> {"kubeadm"}
    [] cmd = "apt-get install kubelet kubectl" -> {"kubelet", "kubectl"}
    [] cmd = "apt-mark hold" -> {"kubeadm", "kubelet", "kubectl"}
    [] OTHER -> {}

\* Variant: kubeadm upgrade apply is given the minor version.
ArgOf_ApplyMinor(step, kube_version) ==
  IF step \in {"install_kubeadm", "install_kubelet_kubectl"} THEN kube_version
  ELSE IF step = "apply" THEN MinorOf(kube_version)
  ELSE NoArg

\* The version a command is formatted with (kubeadm={kube_version}-1.1, ...).
ArgOf(step, kube_version) ==
  IF step \in {"install_kubeadm", "apply", "install_kubelet_kubectl"}
  THEN kube_version
  ELSE NoArg

\* One run_cmd of upgrade_k8s_node on the session and host it was called with.
UpgradeStep ==
  /\ pc \in {"upgrade_control", "upgrade_worker"}
  /\ ustep # "return"
  /\ \E status \in ExitStatuses :
       /\ trace' = Append(trace, Ev("cmd", call.host, call.client, CmdOf(ustep),
                                    ArgOf(ustep, call.kube_version), status,
                                    NoOut))
       /\ IF run_cmd(status, <<>>).exit
          THEN Exit(1) /\ UNCHANGED ustep
          ELSE /\ ustep' = NextUStep(ustep, call.is_control)
               /\ UNCHANGED <<pc, exit_code>>
  /\ UNCHANGED <<otherVars, inventory, nodes, conns, open, client, c, current_version,
                 latest_version, new_minor_version, all_hosts, idx, call>>

\* Variant: the worker loop runs over the workers twice.
RemainingHosts_Twice(n) == n.worker \o n.worker

\* for host in nodes["worker"]: the hosts upgraded after the first control host
RemainingHosts(n) == n.worker

\* client.close() after the control host's upgrade returned
CloseClient ==
  /\ pc = "upgrade_control"
  /\ ustep = "return"
  /\ trace' = Append(trace, Ev("close", nodes.control[1], client, "", NoArg, 0, NoOut))
  /\ open' = Closed(client)
  /\ ustep' = "none"
  /\ call' = NoCall
  /\ IF RemainingHosts(nodes) = <<>>
     THEN pc' = "finish" /\ UNCHANGED idx
     ELSE pc' = "worker_connect" /\ idx' = 1
  /\ UNCHANGED <<otherVars, inventory, nodes, exit_code, conns, client, c,
                 current_version, latest_version, new_minor_version, all_hosts>>

\* c = ssh_connect(get_ssh_params(ssh_config, host));
\* upgrade_k8s_node(c, latest_version, sudo_password, host)
WorkerConnect ==
  /\ pc = "worker_connect"
  /\ \E outcome \in Outcomes :
       LET host == RemainingHosts(nodes)[idx]
       IN  /\ trace' = trace \o ConnectEvents(host, outcome)
           /\ IF outcome = "ok"
              THEN /\ conns' = Append(conns, host)
                   /\ open' = open \cup {Len(conns) + 1}
                   /\ c' = Len(conns) + 1
                   /\ pc' = "upgrade_worker"
                   /\ ustep' = "remove_hold"
                   /\ call' = [client |-> Len(conns) + 1,
                               kube_version |-> latest_version,
                               host |-> host, is_control |-> FALSE]
                   /\ UNCHANGED exit_code
              ELSE /\ Exit(1)
                   /\ UNCHANGED <<conns, open, c, ustep, call>>
  /\ UNCHANGED <<otherVars, inventory, nodes, client, current_version, latest_version,
                 new_minor_version, all_hosts, idx>>

\* c.close() after a worker's upgrade returned; next worker, or the end
WorkerClose ==
  /\ pc = "upgrade_worker"
  /\ ustep = "return"
  /\ trace' = Append(trace, Ev("close", call.host, c, "", NoArg, 0, NoOut))
  /\ open' = Closed(c)
  /\ ustep' = "none"
  /\ call' = NoCall
  /\ IF idx < Len(RemainingHosts(nodes))
     THEN pc' = "worker_connect" /\ idx' = idx + 1
     ELSE pc' = "finish" /\ idx' = 0
  /\ UNCHANGED <<otherVars, inventory, nodes, exit_code, conns, client, c,
                 current_version, latest_version, new_minor_version, all_hosts>>

\* main() returns: the interpreter exits with code 0
Finish ==
  /\ pc = "finish"
  /\ pc' = "done"
  /\ exit_code' = 0
  /\ UNCHANGED <<otherVars, inventory, nodes, trace, conns, open, client, c,
                 current_version, latest_version, new_minor_version,
                 all_hosts, idx, ustep, call>>

Next ==
  \/ ReadInventory
  \/ CheckControl
  \/ LoadSshConfig
  \/ GetPass
  \/ ConnectFirst
  \/ GetCurrentVersion
  \/ GetLatestVersion
  \/ SourcesConnect
  \/ SourcesUpdate
  \/ SourcesClose
  \/ UpgradeStep
  \/ CloseClient
  \/ WorkerConnect
  \/ WorkerClose
  \/ Finish

Spec == Init /\ [][Next]_vars

\* main() is one thread of straight-line code and loops over finite lists:
\* when every remote command and connection attempt returns, the statement
\* the run is at is executed.
\* The inventories of the termination check: host names in the order of
\* HostNames (which name a line carries does not change the path main()
\* takes), every assignment of roles, and the files read_inventory rejects.
OrderedInventories ==
  {inv \in WellFormedInventories :
     \A i \in 1..Len(inv) : inv[i][1] = HostNames[i]} \cup OtherInventories

InitFair ==
  /\ OthersIdle
  /\ inventory \in OrderedInventories
  /\ MainEntry

SpecFair == InitFair /\ [][Next]_vars /\ WF_vars(Next)

\* The fleet runner is not running.
FleetIdle ==
  /\ inventory = <<>>
  /\ nodes = NoNodes
  /\ pc = "idle"
  /\ exit_code = 0
  /\ trace = <<>>
  /\ conns = <<>>
  /\ open = {}
  /\ client = 0
  /\ c = 0
  /\ current_version = NoMatch
  /\ latest_version = NoMatch
  /\ new_minor_version = NoMatch
  /\ all_hosts = <<>>
  /\ idx = 0
  /\ ustep = "none"
  /\ call = NoCall

\* ---------------------------------- main() on every shape of inventory file
InitInventory ==
  /\ OthersIdle
  /\ inventory \in AnyInventories
  /\ MainEntry

SpecInventory == InitInventory /\ [][Next]_vars

\* ------------------------------------------- the rewriter on one host's file
InitRewrite ==
  /\ FleetIdle
  /\ NodeIdle
  /\ EbuildIdle
  /\ k8s_list \in K8sLists
  /\ target_minor \in {MinorOf(v) : v \in FullVersions}
  /\ rewrite_calls = 0
  /\ rewrites = <<>>

\* update_k8s_sources(c, new_minor_version, ...): the sed command is always
\* run; it rewrites the file in place when it succeeds.
UpdateK8sSources ==
  /\ rewrite_calls < MaxRewrites
  /\ rewrite_calls' = rewrite_calls + 1
  /\ \E status \in ExitStatuses :
       /\ k8s_list' = IF run_cmd(status, <<>>).exit THEN k8s_list
                      ELSE SedFile(k8s_list, target_minor)
       /\ rewrites' = Append(rewrites, [status |-> status, content |-> k8s_list'])
  /\ UNCHANGED <<fleetVars, nodeVars, ebuildVars, target_minor>>

NextRewrite == UpdateK8sSources

SpecRewrite == InitRewrite /\ [][NextRewrite]_vars

\* ------------------------------------------------------- update-k8s-node.py
\* Most runs of the script on one node.
MaxRuns == 2

\* Packages apt may want to upgrade, in sorted() order.
PackageOrder == <<"kubeadm", "kubelet">>

Packages == {PackageOrder[i] : i \in 1..Len(PackageOrder)}

\* requests.post: response.ok, not response.ok, or an exception of requests.
PostOutcomes == {"ok", "not_ok", "raise"}

NoPkgs == <<>>

NEv(ev, result, pkgs) == [run |-> n_run, ev |-> ev, result |-> result, pkgs |-> pkgs]

\* sorted([package.name for package in cache.get_changes()])
Sorted(pkgs) == SelectSeq(PackageOrder, LAMBDA p : p \in pkgs)

\* The text appended for the packages: f"{package}, " for each.
RECURSIVE PackageList(_)
PackageList(names) ==
  IF names = <<>> THEN <<>>
  ELSE <<Head(names), ",", " ">> \o PackageList(Tail(names))

\* changes_notification_message: the header, the packages, then [:-2].  The
\* last two elements are always single characters.
ChangesMessage(names) ==
  LET text == <<"hostname", ":", " ", "The following updates will be applied",
                ":", "\n">> \o PackageList(names)
  IN  SubSeq(text, 1, Len(text) - 2)

NodeInit ==
  /\ FleetIdle
  /\ RewriteIdle
  /\ EbuildIdle
  /\ marker \in BOOLEAN
  /\ n_pc = "idle"
  /\ n_run = 0
  /\ n_log = <<>>
  /\ changes = <<>>
  /\ message = <<>>

\* The script is started: exit(...) unless os.geteuid() == 0, else main().
NodeStart ==
  /\ n_pc = "idle"
  /\ n_run < MaxRuns
  /\ n_run' = n_run + 1
  /\ \E is_root \in BOOLEAN :
       IF is_root
       THEN /\ n_pc' = "check_marker"
            /\ n_log' = Append(n_log, [NEv("start", "root", NoPkgs) EXCEPT !.run = n_run + 1])
       ELSE /\ n_pc' = "idle"
            /\ n_log' = n_log \o <<[NEv("start", "not_root", NoPkgs) EXCEPT !.run = n_run + 1],
                                    [NEv("end", "exit", NoPkgs) EXCEPT !.run = n_run + 1]>>
  /\ UNCHANGED <<fleetVars, rewriteVars, ebuildVars, marker, changes, message>>

\* if os.path.exists("/var/run/reboot-required")
CheckMarker ==
  /\ n_pc = "check_marker"
  /\ n_log' = Append(n_log, NEv("check_marker", IF marker THEN "present" ELSE "absent", NoPkgs))
  /\ n_pc' = IF marker THEN "skip_post" ELSE "cache_update"
  /\ UNCHANGED <<fleetVars, rewriteVars, ebuildVars, marker, n_run, changes, message>>

\* Variant: the skip branch lacks its return.
SkipPost_FallThrough ==
  /\ n_pc = "skip_post"
  /\ \E o \in PostOutcomes :
       /\ n_log' = Append(n_log, NEv("post_skip", o, NoPkgs))
       /\ n_pc' = "cache_update"
  /\ UNCHANGED <<fleetVars, rewriteVars, ebuildVars, marker, n_run, changes, message>>

\* The skip notification, then return.
SkipPost ==
  /\ n_pc = "skip_post"
  /\ \E o \in PostOutcomes :
       n_log' = n_log \o <<NEv("post_skip", o, NoPkgs),
                            NEv("end", IF o = "raise" THEN "raised" ELSE "returned", NoPkgs)>>
  /\ n_pc' = "idle"
  /\ UNCHANGED <<fleetVars, rewriteVars, ebuildVars, marker, n_run, changes, message>>

\* cache = apt.Cache(); cache.update(); cache.open(None)
CacheUpdate ==
  /\ n_pc = "cache_update"
  /\ \E o \in Outcomes :
       IF o = "ok"
       THEN /\ n_log' = Append(n_log, NEv("cache_update", o, NoPkgs))
            /\ n_pc' = "cache_upgrade"
       ELSE /\ n_log' = n_log \o <<NEv("cache_update", o, NoPkgs),
                                    NEv("end", "raised", NoPkgs)>>
            /\ n_pc' = "idle"
  /\ UNCHANGED <<fleetVars, rewriteVars, ebuildVars, marker, n_run, changes, message>>

\* cache.upgrade(); changes = sorted(...); the message is built
CacheUpgrade ==
  /\ n_pc = "cache_upgrade"
  /\ \E pkgs \in SUBSET Packages :
       /\ changes' = Sorted(pkgs)
       /\ message' = ChangesMessage(Sorted(pkgs))
       /\ n_log' = Append(n_log, NEv("cache_upgrade", "ok", Sorted(pkgs)))
  /\ n_pc' = "post_changes"
  /\ UNCHANGED <<fleetVars, rewriteVars, ebuildVars, marker, n_run>>

\* requests.post of the change summary; a response that is not ok is printed
PostChanges ==
  /\ n_pc = "post_changes"
  /\ \E o \in PostOutcomes :
       IF o = "raise"
       THEN /\ n_log' = n_log \o <<NEv("post_changes", o, changes),
                                    NEv("end", "raised", NoPkgs)>>
            /\ n_pc' = "idle"
       ELSE /\ n_log' = Append(n_log, NEv("post_changes", o, changes))
            /\ n_pc' = "commit"
  /\ UNCHANGED <<fleetVars, rewriteVars, ebuildVars, marker, n_run, changes, message>>

\* cache.commit()
Commit ==
  /\ n_pc = "commit"
  /\ \E o \in Outcomes :
       IF o = "ok"
       THEN /\ n_log' = Append(n_log, NEv("commit", o, changes))
            /\ n_pc' = "post_done"
       ELSE /\ n_log' = n_log \o <<NEv("commit", o, changes),
                                    NEv("end", "raised", NoPkgs)>>
            /\ n_pc' = "idle"
  /\ UNCHANGED <<fleetVars, rewriteVars, ebuildVars, marker, n_run, changes, message>>

\* requests.post of the completion message
PostDone ==
  /\ n_pc = "post_done"
  /\ \E o \in PostOutcomes :
       IF o = "raise"
       THEN /\ n_log' = n_log \o <<NEv("post_done", o, NoPkgs),
                                    NEv("end", "raised", NoPkgs)>>
            /\ n_pc' = "idle"
       ELSE /\ n_log' = Append(n_log, NEv("post_done", o, NoPkgs))
            /\ n_pc' = "touch_marker"
  /\ UNCHANGED <<fleetVars, rewriteVars, ebuildVars, marker, n_run, changes, message>>

\* open("/var/run/reboot-required", "a").close(); main() returns
TouchMarker ==
  /\ n_pc = "touch_marker"
  /\ marker' = TRUE
  /\ n_log' = n_log \o <<NEv("touch_marker", "ok", NoPkgs),
                          NEv("end", "returned", NoPkgs)>>
  /\ n_pc' = "idle"
  /\ UNCHANGED <<fleetVars, rewriteVars, ebuildVars, n_run, changes, message>>

\* The node reboots between two runs: /var/run is emptied.
Reboot ==
  /\ n_pc = "idle"
  /\ marker
  /\ n_run < MaxRuns
  /\ marker' = FALSE
  /\ n_log' = Append(n_log, NEv("reboot", "ok", NoPkgs))
  /\ UNCHANGED <<fleetVars, rewriteVars, ebuildVars, n_pc, n_run, changes, message>>

NodeNext ==
  \/ NodeStart
  \/ CheckMarker
  \/ SkipPost
  \/ CacheUpdate
  \/ CacheUpgrade
  \/ PostChanges
  \/ Commit
  \/ PostDone
  \/ TouchMarker
  \/ Reboot

SpecNode == NodeInit /\ [][NodeNext]_vars

\* ------------------------------------------- scripts/update-ebuild/main.py
\* Text of the script: tags, versions and file names are sequences of
\* one-character strings.
LowerCase == {"a", "b", "c", "d", "e", "f", "g", "h", "i", "j", "k", "l", "m",
              "n", "o", "p", "q", "r", "s", "t", "u", "v", "w", "x", "y", "z"}

UpperCase == {"A", "B", "C", "D", "E", "F", "G", "H", "I", "J", "K", "L", "M",
              "N", "O", "P", "Q", "R", "S", "T", "U", "V", "W", "X", "Y", "Z"}

\* [0-9a-zA-Z.]
PvChars == Digits \cup LowerCase \cup UpperCase \cup {"."}

\* [._-]
MarkerSeps == {".", "_", "-"}

\* [0-9a-f]
HexChars == Digits \cup {"a", "b", "c", "d", "e", "f"}

ReleaseWord == <<"R", "e", "l", "e", "a", "s", "e">>

\* str.lstrip(chars)
RECURSIVE LStripChars(_, _)
LStripChars(s, chars) ==
  IF s # <<>> /\ Head(s) \in chars THEN LStripChars(Tail(s), chars) ELSE s

\* str.rstrip(chars)
RECURSIVE RStripChars(_, _)
RStripChars(s, chars) ==
  IF s # <<>> /\ s[Len(s)] \in chars
  THEN RStripChars(SubSeq(s, 1, Len(s) - 1), chars) ELSE s

\* re.sub(r"[._-]Release[._-]", "_", s)
RECURSIVE SubRelease(_)
SubRelease(s) ==
  IF s = <<>> THEN <<>>
  ELSE IF /\ Len(s) >= Len(ReleaseWord) + 2
          /\ s[1] \in MarkerSeps
          /\ HasAt(s, 2, ReleaseWord)
          /\ s[Len(ReleaseWord) + 2] \in MarkerSeps
       THEN <<"_">> \o SubRelease(SubSeq(s, Len(ReleaseWord) + 3, Len(s)))
       ELSE <<Head(s)>> \o SubRelease(Tail(s))

\* s without its longest prefix of characters outside keep
RECURSIVE DropOthers(_, _)
DropOthers(s, keep) ==
  IF s # <<>> /\ Head(s) \notin keep THEN DropOthers(Tail(s), keep) ELSE s

\* re.sub(r"[^0-9a-zA-Z.]+", "_", s)
RECURSIVE SubSeparators(_)
SubSeparators(s) ==
  IF s = <<>> THEN <<>>
  ELSE IF Head(s) \notin PvChars
       THEN <<"_">> \o SubSeparators(DropOthers(s, PvChars))
       ELSE <<Head(s)>> \o SubSeparators(Tail(s))

\* re.sub(r"__+", "_", s)
RECURSIVE SubUnderscores(_)
SubUnderscores(s) ==
  IF s = <<>> THEN <<>>
  ELSE IF Len(s) >= 2 /\ s[1] = "_" /\ s[2] = "_"
       THEN <<"_">> \o SubUnderscores(LStripChars(s, {"_"}))
       ELSE <<Head(s)>> \o SubUnderscores(Tail(s))

\* re.sub(r"_([0-9a-f]{6,})$", "", s)
DropHash(s) ==
  LET At == {i \in 1..Len(s) :
               /\ s[i] = "_"
               /\ Len(s) - i >= 6
               /\ \A k \in (i + 1)..Len(s) : s[k] \in HexChars}
  IN  IF At = {} THEN s
      ELSE SubSeq(s, 1, (CHOOSE i \in At : \A j \in At : i <= j) - 1)

\* Variant: the tag is used as the version as it is.
normalize_tag_to_pv_Raw(tag) == tag

\* normalize_tag_to_pv(tag)
normalize_tag_to_pv(tag) ==
  DropHash(
    RStripChars(
      LStripChars(
        SubUnderscores(SubSeparators(SubRelease(LStripChars(tag, {"v"})))),
        {".", "_"}),
      {".", "_"}))

\* Characters in the order of their code points, for sorted().
CodePoints ==
  <<"-", ".", "0", "1", "2", "3", "4", "5", "6", "7", "8", "9",
    "A", "B", "C", "D", "E", "F", "G", "H", "I", "J", "K", "L", "M",
    "N", "O", "P", "Q", "R", "S", "T", "U", "V", "W", "X", "Y", "Z", "_",
    "a", "b", "c", "d", "e", "f", "g", "h", "i", "j", "k", "l", "m",
    "n", "o", "p", "q", "r", "s", "t", "u", "v", "w", "x", "y", "z">>

Ord(ch) == CHOOSE i \in 1..Len(CodePoints) : CodePoints[i] = ch

\* a < b as Python compares str
RECURSIVE StrLess(_, _)
StrLess(a, b) ==
  IF a = <<>> THEN b # <<>>
  ELSE IF b = <<>> THEN FALSE
  ELSE IF Head(a) = Head(b) THEN StrLess(Tail(a), Tail(b))
  ELSE Ord(Head(a)) < Ord(Head(b))

\* sorted(versions)
RECURSIVE SortedStrs(_)
SortedStrs(S) ==
  IF S = {} THEN <<>>
  ELSE LET m == CHOOSE x \in S : \A y \in S \ {x} : StrLess(x, y)
       IN  <<m>> \o SortedStrs(S \ {m})

DotEbuild == <<".", "e", "b", "u", "i", "l", "d">>

\* sys.argv[1] = "app/foo": pn
Pn == <<"f", "o", "o">>

\* pkgdir / f"{pn}-{pv}.ebuild"
EbuildName(pn, pv) == pn \o <<"-">> \o pv \o DotEbuild

\* glob("*.ebuild")
IsEbuildFile(name) ==
  Len(name) >= Len(DotEbuild) /\ HasAt(name, Len(name) - Len(DotEbuild) + 1, DotEbuild)

\* re.match(rf"{pn}-(.+)\.ebuild", name): where the last \.ebuild that leaves
\* a non-empty group starts ({} when there is no match).
MatchEnds(pn, name) ==
  IF HasAt(name, 1, pn \o <<"-">>)
  THEN {k \in (Len(pn) + 3)..Len(name) : HasAt(name, k, DotEbuild)}
  ELSE {}

\* m.group(1)
VersionOfName(pn, name) ==
  LET K == MatchEnds(pn, name)
      k == CHOOSE i \in K : \A j \in K : j <= i
  IN  SubSeq(name, Len(pn) + 2, k - 1)

\* get_existing_versions(pkgdir, pn)
get_existing_versions(files, pn) ==
  SortedStrs({VersionOfName(pn, name) :
                name \in {n \in DOMAIN files :
                            IsEbuildFile(n) /\ MatchEnds(pn, n) # {}}})

\* Elements of a list
Elems(list) == {list[i] : i \in 1..Len(list)}

Live == <<"9", "9", "9", "9">>

\* Text of an ebuild: the path after github.com/ in EGIT_REPO_URI (<<>> when
\* the line is missing, ".git" as its own element), the tag in SRC_URI, and
\* the KEYWORDS value.
EbuildText(egit, src, keywords) ==
  [egit |-> egit, src |-> src, keywords |-> keywords]

NoText == EbuildText(<<>>, <<>>, "")

\* extract_repo_from_ebuild: the repo, "" when it raises ValueError
extract_repo_from_ebuild(text) ==
  IF text.egit = <<>> THEN ""
  ELSE text.egit[1]

\* bump_src_uri(text, repo, oldver, newtag)
bump_src_uri(text, newtag) == [text EXCEPT !.src = newtag]

\* set_keywords(text, newver)
set_keywords(text, newver) ==
  IF newver # Live THEN [text EXCEPT !.keywords = "~amd64"] ELSE text

\* The text write_new_ebuild writes.
NewText(text, oldver, pv, newtag) ==
  set_keywords(IF oldver # Live /\ pv # Live THEN bump_src_uri(text, newtag)
               ELSE text,
               pv)

\* ---- inputs
TagV12 == <<"v", "1", ".", "2">>

Tag12 == <<"1", ".", "2">>

TagHash == <<"v", "1", ".", "3", "-", "a", "b", "c", "d", "e", "f", "1">>

TagRelease == <<"1", ".", "4", "-", "R", "e", "l", "e", "a", "s", "e", "-", "2">>

TagV == <<"v">>

\* What the source-hosting API has for the repo: tag_name of the latest
\* release (<<>> when there is none) and the names of the tag list.
Upstreams ==
  { [release |-> TagV12, tags |-> <<TagHash, TagV12>>],
    [release |-> <<>>, tags |-> <<Tag12>>],
    [release |-> <<>>, tags |-> <<>>],
    [release |-> TagV, tags |-> <<TagV>>],
    [release |-> TagRelease, tags |-> <<TagRelease>>] }

ManifestName == <<"M", "a", "n", "i", "f", "e", "s", "t">>

\* Package directories the script may find.
PkgDirs ==
  { [exists |-> FALSE, files |-> [n \in {} |-> NoText]],
    [exists |-> TRUE, files |-> [n \in {ManifestName} |-> NoText]],
    [exists |-> TRUE,
     files |-> [n \in {EbuildName(Pn, Tag12), ManifestName} |->
                  IF n = ManifestName THEN NoText
                  ELSE EbuildText(<<"org/foo">>, Tag12, "amd64")]],
    [exists |-> TRUE,
     files |-> [n \in {EbuildName(Pn, <<"1", ".", "0">>), EbuildName(Pn, Live),
                       EbuildName(<<"b", "a", "r">>, Tag12)} |->
                  IF n = EbuildName(Pn, Live)
                  THEN EbuildText(<<"org/foo", ".git">>, <<>>, "")
                  ELSE EbuildText(<<"org/foo">>, <<"1", ".", "0">>, "~amd64")]],
    [exists |-> TRUE,
     files |-> [n \in {EbuildName(Pn, <<"1", ".", "0">>)} |->
                  EbuildText(<<>>, <<"1", ".", "0">>, "~amd64")]] }

\* Outcomes of the script being started with or without its one argument.
ArgCounts == {1, 2}

\* One entry of e_log: run number, step, how it went, the tag, version or
\* file name it was about, and what upstream had at that time.
EEv(run, ev, result, arg) ==
  [run |-> run, ev |-> ev, result |-> result, arg |-> arg, up |-> upstream]

EbuildInit ==
  /\ FleetIdle
  /\ RewriteIdle
  /\ NodeIdle
  /\ pkgdir \in PkgDirs
  /\ upstream \in Upstreams
  /\ e_pc = "idle"
  /\ e_run = 0
  /\ e_log = <<>>
  /\ versions = <<>>
  /\ basever = <<>>
  /\ repo = ""
  /\ latest_tag = <<>>
  /\ newpv = <<>>

\* main() up to basever: argv, pkgdir.exists(), get_existing_versions
EbuildStart ==
  /\ e_pc = "idle"
  /\ e_run < MaxRuns
  /\ e_run' = e_run + 1
  /\ \E argc \in ArgCounts :
       LET vs == get_existing_versions(pkgdir.files, Pn)
           fail == IF argc # 2 THEN "usage"
                   ELSE IF ~pkgdir.exists THEN "no_pkgdir"
                   ELSE IF vs = <<>> THEN "no_ebuilds"
                   ELSE "ok"
       IN  IF fail # "ok"
           THEN /\ e_log' = e_log \o <<EEv(e_run + 1, "start", fail, <<>>),
                                       EEv(e_run + 1, "end", "exit", <<>>)>>
                /\ versions' = <<>>
                /\ basever' = <<>>
                /\ e_pc' = "idle"
           ELSE /\ e_log' = Append(e_log, EEv(e_run + 1, "start", "ok", vs))
                /\ versions' = vs
                /\ basever' = vs[Len(vs)]
                /\ e_pc' = "extract_repo"
  /\ repo' = ""
  /\ latest_tag' = <<>>
  /\ newpv' = <<>>
  /\ UNCHANGED <<fleetVars, rewriteVars, nodeVars, pkgdir, upstream>>

\* repo = extract_repo_from_ebuild(base_ebuild)
ExtractRepo ==
  /\ e_pc = "extract_repo"
  /\ LET r == extract_repo_from_ebuild(pkgdir.files[EbuildName(Pn, basever)])
     IN  IF r = ""
         THEN /\ e_log' = e_log \o <<EEv(e_run, "extract_repo", "raise", <<>>),
                                     EEv(e_run, "end", "raised", <<>>)>>
              /\ e_pc' = "idle"
              /\ UNCHANGED repo
         ELSE /\ e_log' = Append(e_log, EEv(e_run, "extract_repo", "ok", <<>>))
              /\ repo' = r
              /\ e_pc' = "release_query"
  /\ UNCHANGED <<fleetVars, rewriteVars, nodeVars, pkgdir, upstream, e_run,
                 versions, basever, latest_tag, newpv>>

\* latest_tag = get_latest_release_tag(repo): None when the request raises
GetLatestReleaseTag ==
  /\ e_pc = "release_query"
  /\ \E outcome \in Outcomes :
       LET tag == IF outcome = "ok" THEN upstream.release ELSE <<>>
       IN  /\ e_log' = Append(e_log, EEv(e_run, "release_query",
                                         IF outcome = "raise" THEN "failed"
                                         ELSE IF tag = <<>> THEN "none" ELSE "tag",
                                         tag))
           /\ latest_tag' = tag
           /\ e_pc' = IF tag # <<>> THEN "decide" ELSE "tags_query"
  /\ UNCHANGED <<fleetVars, rewriteVars, nodeVars, pkgdir, upstream, e_run,
                 versions, basever, repo, newpv>>

\* Variant: the tag list is asked first and wins over the latest release.
GetLatestTag_Always ==
  /\ e_pc \in {"release_query", "tags_query"}
  /\ \E outcome \in Outcomes :
       IF outcome = "raise"
       THEN /\ e_log' = e_log \o <<EEv(e_run, "tags_query", "raise", <<>>),
                                   EEv(e_run, "end", "raised", <<>>)>>
            /\ e_pc' = "idle"
            /\ UNCHANGED latest_tag
       ELSE LET tag == IF upstream.tags = <<>> THEN <<>> ELSE upstream.tags[1]
            IN  /\ e_log' = Append(e_log, EEv(e_run, "tags_query",
                                              IF tag = <<>> THEN "none" ELSE "tag",
                                              tag))
                /\ latest_tag' = tag
                /\ e_pc' = "decide"
  /\ UNCHANGED <<fleetVars, rewriteVars, nodeVars, pkgdir, upstream, e_run,
                 versions, basever, repo, newpv>>

\* latest_tag = get_latest_tag(repo): the request is not guarded
GetLatestTag ==
  /\ e_pc = "tags_query"
  /\ \E outcome \in Outcomes :
       IF outcome = "raise"
       THEN /\ e_log' = e_log \o <<EEv(e_run, "tags_query", "raise", <<>>),
                                   EEv(e_run, "end", "raised", <<>>)>>
            /\ e_pc' = "idle"
            /\ UNCHANGED latest_tag
       ELSE LET tag == IF upstream.tags = <<>> THEN <<>> ELSE upstream.tags[1]
            IN  /\ e_log' = Append(e_log, EEv(e_run, "tags_query",
                                              IF tag = <<>> THEN "none" ELSE "tag",
                                              tag))
                /\ latest_tag' = tag
                /\ e_pc' = "decide"
  /\ UNCHANGED <<fleetVars, rewriteVars, nodeVars, pkgdir, upstream, e_run,
                 versions, basever, repo, newpv>>

\* if latest_tag: newpv = normalize_tag_to_pv(latest_tag) ... else: 9999;
\* return when the version is in versions
Decide ==
  /\ e_pc = "decide"
  /\ LET pv == IF latest_tag # <<>> THEN normalize_tag_to_pv(latest_tag) ELSE Live
     IN  /\ newpv' = pv
         /\ IF pv \in Elems(versions)
            THEN /\ e_log' = e_log \o <<EEv(e_run, "decide", "up_to_date", pv),
                                        EEv(e_run, "end", "returned", <<>>)>>
                 /\ e_pc' = "idle"
            ELSE /\ e_log' = Append(e_log, EEv(e_run, "decide", "write", pv))
                 /\ e_pc' = "write"
  /\ UNCHANGED <<fleetVars, rewriteVars, nodeVars, pkgdir, upstream, e_run,
                 versions, basever, repo, latest_tag>>

\* Variant: newfile.exists() is not looked at.
WriteNewEbuild_Overwrite ==
  /\ e_pc = "write"
  /\ LET newfile == EbuildName(Pn, newpv)
         base == pkgdir.files[EbuildName(Pn, basever)]
         newtag == IF latest_tag # <<>> THEN latest_tag ELSE Live
     IN  /\ pkgdir' = [pkgdir EXCEPT !.files =
                         [n \in DOMAIN pkgdir.files \cup {newfile} |->
                            IF n = newfile
                            THEN NewText(base, basever, newpv, newtag)
                            ELSE pkgdir.files[n]]]
         /\ e_log' = Append(e_log, EEv(e_run, "write", "created", newfile))
         /\ e_pc' = "manifest"
  /\ UNCHANGED <<fleetVars, rewriteVars, nodeVars, upstream, e_run, versions,
                 basever, repo, latest_tag, newpv>>

\* write_new_ebuild up to newfile.write_text(text)
WriteNewEbuild ==
  /\ e_pc = "write"
  /\ LET newfile == EbuildName(Pn, newpv)
         base == pkgdir.files[EbuildName(Pn, basever)]
         newtag == IF latest_tag # <<>> THEN latest_tag ELSE Live
     IN  IF newfile \in DOMAIN pkgdir.files
         THEN /\ e_log' = e_log \o <<EEv(e_run, "write", "exists", newfile),
                                     EEv(e_run, "end", "returned", <<>>)>>
              /\ e_pc' = "idle"
              /\ UNCHANGED pkgdir
         ELSE /\ pkgdir' = [pkgdir EXCEPT !.files =
                              [n \in DOMAIN pkgdir.files \cup {newfile} |->
                                 IF n = newfile
                                 THEN NewText(base, basever, newpv, newtag)
                                 ELSE pkgdir.files[n]]]
              /\ e_log' = Append(e_log, EEv(e_run, "write", "created", newfile))
              /\ e_pc' = "manifest"
  /\ UNCHANGED <<fleetVars, rewriteVars, nodeVars, upstream, e_run, versions,
                 basever, repo, latest_tag, newpv>>

\* subprocess.run(["ebuild", newfile, "manifest"], check=True): rewrites the
\* Manifest file, raises CalledProcessError when ebuild fails
EbuildManifest ==
  /\ e_pc = "manifest"
  /\ \E outcome \in Outcomes :
       /\ e_log' = e_log \o
            <<EEv(e_run, "manifest", outcome, EbuildName(Pn, newpv)),
              EEv(e_run, "end", IF outcome = "ok" THEN "returned" ELSE "raised",
                  <<>>)>>
       /\ pkgdir' = IF outcome = "ok"
                    THEN [pkgdir EXCEPT !.files =
                            [n \in DOMAIN pkgdir.files \cup {ManifestName} |->
                               IF n = ManifestName
                               THEN EbuildText(<<>>, newpv, "")
                               ELSE pkgdir.files[n]]]
                    ELSE pkgdir
  /\ e_pc' = "idle"
  /\ UNCHANGED <<fleetVars, rewriteVars, nodeVars, upstream, e_run, versions,
                 basever, repo, latest_tag, newpv>>

\* Between two runs upstream publishes something else.
UpstreamChange ==
  /\ e_pc = "idle"
  /\ e_run \in 1..(MaxRuns - 1)
  /\ e_log[Len(e_log)].ev = "end"
  /\ upstream' \in Upstreams \ {upstream}
  /\ e_log' = Append(e_log, EEv(e_run, "upstream_change", "ok", <<>>))
  /\ UNCHANGED <<fleetVars, rewriteVars, nodeVars, pkgdir, e_pc, e_run, versions,
                 basever, repo, latest_tag, newpv>>

EbuildNext ==
  \/ EbuildStart
  \/ ExtractRepo
  \/ GetLatestReleaseTag
  \/ GetLatestTag
  \/ Decide
  \/ WriteNewEbuild
  \/ EbuildManifest
  \/ UpstreamChange

SpecEbuild == EbuildInit /\ [][EbuildNext]_vars


\* ===================================================================
\* Properties.  They read the inventory file and the trace, not main()'s
\* local variables, unless the property is about such a variable.
\* ===================================================================
IsControlLine(line) == Len(line) = 2 /\ line[2] = "control"

IsWorkerLine(line) == Len(line) = 2 /\ line[2] = "worker"

HostsOfLines(lines) == [i \in 1..Len(lines) |-> lines[i][1]]

\* The hosts the inventory file lists under each role, in line order.
ListedControls == HostsOfLines(SelectSeq(inventory, IsControlLine))

ListedWorkers == HostsOfLines(SelectSeq(inventory, IsWorkerLine))

ListedAll == ListedControls \o ListedWorkers

IsPrefix(s, t) == Len(s) <= Len(t) /\ SubSeq(t, 1, Len(s)) = s

\* Positions of the trace that ran the remote command cmd.
Cmds(cmd) == {i \in 1..Len(trace) : trace[i].kind = "cmd" /\ trace[i].cmd = cmd}

IsCmd(e) == e.kind = "cmd"

IsFailedCmd(e) == e.kind = "cmd" /\ e.status # 0

CmdEvents == SelectSeq(trace, IsCmd)

\* The run returned from main() normally.
Completed == pc = "done" /\ exit_code = 0

PackageCmds == {"apt-mark unhold", "apt-get update", "apt-get install kubeadm",
                "apt-get install kubelet kubectl", "apt-mark hold"}

VersionedCmds == {"apt-get install kubeadm", "kubeadm upgrade apply",
                  "apt-get install kubelet kubectl"}

\* Hosts on which cmd ran with status 0, in trace order.
RECURSIVE HostsOf(_, _)
HostsOf(events, cmd) ==
  IF events = <<>> THEN <<>>
  ELSE (IF Head(events).cmd = cmd /\ Head(events).status = 0
        THEN <<Head(events).host>> ELSE <<>>) \o HostsOf(Tail(events), cmd)

\* Hosts on which cmd was issued (whatever its status), in trace order.
RECURSIVE IssuedOn(_, _)
IssuedOn(events, cmd) ==
  IF events = <<>> THEN <<>>
  ELSE (IF Head(events).cmd = cmd THEN <<Head(events).host>> ELSE <<>>)
       \o IssuedOn(Tail(events), cmd)

\* Commands upgrade_k8s_node issued on session sess, in order (the two
\* version queries main() runs on the same session are not part of it).
RECURSIVE ProcCmds(_, _)
ProcCmds(events, sess) ==
  IF events = <<>> THEN <<>>
  ELSE (IF Head(events).sess = sess
           /\ Head(events).cmd \notin {"cat", "apt-cache madison", "sed -i"}
        THEN <<Head(events).cmd>> ELSE <<>>) \o ProcCmds(Tail(events), sess)

\* C1: kubeadm upgrade apply is issued at most once, only on the first
\* control host listed (never on a worker or a further control host), and a
\* run that completes has issued it exactly once.
C1_ApplyOnceOnFirstControl ==
  LET A == Cmds("kubeadm upgrade apply")
  IN  /\ Cardinality(A) <= 1
      /\ \A i \in A : /\ ListedControls # <<>>
                      /\ trace[i].host = ListedControls[1]
      /\ Completed => Cardinality(A) = 1

\* A completed run over two control hosts and a worker.
C1_Witness ==
  /\ Completed
  /\ Len(ListedControls) >= 2
  /\ Len(ListedWorkers) >= 1
  /\ Cmds("kubeadm upgrade apply") # {}

\* C2: a completed run has run the Upgrade Procedure exactly once on every
\* host of the inventory in fleet order, with the control-only steps on
\* every control host and without them on every worker.
C2_EveryHostUpgraded ==
  Completed =>
    /\ HostsOf(CmdEvents, "apt-mark unhold") = ListedAll
    /\ HostsOf(CmdEvents, "apt-mark hold") = ListedAll
    /\ HostsOf(CmdEvents, "kubectl uncordon") = ListedControls

\* The fixed order of the procedure's commands without and with the
\* control-only steps (Reload & Restart Agent is two commands).
WorkerOrder ==
  <<"apt-mark unhold", "apt-get update", "apt-get install kubeadm",
    "apt-get install kubelet kubectl", "systemctl daemon-reload",
    "systemctl restart kubelet", "apt-mark hold">>

ControlOrder ==
  <<"apt-mark unhold", "apt-get update", "apt-get install kubeadm",
    "kubectl drain", "kubeadm upgrade apply",
    "apt-get install kubelet kubectl", "systemctl daemon-reload",
    "systemctl restart kubelet", "apt-mark hold", "kubectl uncordon">>

\* C3: the commands of a running upgrade_k8s_node call are a prefix of the
\* fixed order for its is_control, and all of it once the call returns.
C3_StepOrder ==
  ustep # "none" =>
    LET issued == ProcCmds(CmdEvents, call.client)
        order == IF call.is_control THEN ControlOrder ELSE WorkerOrder
    IN  /\ IsPrefix(issued, order)
        /\ ustep = "return" => issued = order

\* A worker call has returned after the control call ran all its steps.
C3_Witness ==
  /\ ustep = "return"
  /\ ~call.is_control
  /\ ProcCmds(CmdEvents, client) = ControlOrder

\* C4: a remote command that returned a non-zero status is the last thing the
\* run did: nothing follows it in the trace and the process has exited.
C4_FailStop ==
  \A i \in 1..Len(trace) :
    IsFailedCmd(trace[i]) => /\ i = Len(trace)
                             /\ pc = "done"
                             /\ exit_code # 0

\* Unhold failed on the first control host while workers were still to come.
C4_Witness ==
  /\ trace # <<>>
  /\ IsFailedCmd(trace[Len(trace)])
  /\ trace[Len(trace)].cmd = "apt-mark unhold"
  /\ ListedWorkers # <<>>
  /\ Cmds("apt-mark hold") = {}

\* C5: the source rewrites run on the inventory's hosts in fleet order, one
\* per host, and all of them have succeeded before any package operation.
C5_RewriteFirst ==
  /\ IsPrefix(IssuedOn(CmdEvents, "sed -i"), ListedAll)
  /\ (\E i \in 1..Len(trace) : IsCmd(trace[i]) /\ trace[i].cmd \in PackageCmds)
       => HostsOf(CmdEvents, "sed -i") = ListedAll
  /\ Completed => HostsOf(CmdEvents, "sed -i") = ListedAll

\* Package operations have begun in a fleet of three hosts.
C5_Witness ==
  /\ Len(ListedControls) >= 2
  /\ Len(ListedWorkers) >= 1
  /\ Cmds("apt-get install kubeadm") # {}


\* C6 as stated: at most one remote session is open at any point of the run.
C6_OneSessionOpen == Cardinality(open) <= 1

\* C6 amended: at most two sessions are open, the one to the first control
\* host (open from version resolution until its upgrade has returned, closed
\* before the first worker is contacted) and at most one session of the
\* running loop, closed before the loop connects to its next host.
C6_AtMostTwoSessions ==
  /\ Cardinality(open) <= 2
  /\ Cardinality(open \ {client}) <= 1
  /\ pc \in {"sources_connect", "upgrade_control", "worker_connect", "finish"}
       => open \ {client} = {}
  /\ pc \in {"get_current", "get_latest", "sources_connect", "sources_update",
             "sources_close", "upgrade_control"} => client \in open
  /\ pc \in {"worker_connect", "upgrade_worker", "finish"} => client \notin open
  /\ Completed => open = {}

\* The rewrite loop is connected to its second host while client is open.
C6_Witness ==
  /\ pc = "sources_update"
  /\ idx = 2
  /\ open = {client, c}
  /\ client # c

\* C7: with no control host in the inventory the run does nothing to the
\* outside world (no config read, no prompt, no connection, no command) and
\* ends with a failure as soon as it has looked at the inventory.
C7_NoControlNoSideEffect ==
  ListedControls = <<>> =>
    /\ trace = <<>>
    /\ conns = <<>>
    /\ open = {}
    /\ pc \in {"read_inventory", "check_control", "done"}
    /\ pc = "done" => exit_code # 0

\* A workers-only inventory, after the run has ended.
C7_Witness ==
  /\ ListedControls = <<>>
  /\ Len(ListedWorkers) >= 2
  /\ pc = "done"

\* C8: each version query is issued at most once, on the first control host,
\* and both have succeeded before any rewrite; every install and apply
\* command on every host carries the one full version that the package index
\* query printed.
C8_VersionResolvedOnce ==
  LET Q == Cmds("cat") \cup Cmds("apt-cache madison")
  IN  /\ Cardinality(Cmds("cat")) <= 1
      /\ Cardinality(Cmds("apt-cache madison")) <= 1
      /\ \A i \in Q : trace[i].host = ListedControls[1]
      /\ Cmds("sed -i") # {} =>
           /\ Cardinality(Q) = 2
           /\ \A i \in Q : trace[i].status = 0
      /\ \A i \in 1..Len(trace) :
           IsCmd(trace[i]) /\ trace[i].cmd \in VersionedCmds =>
             /\ trace[i].arg # NoMatch
             /\ trace[i].arg = latest_version
             /\ \E j \in Cmds("apt-cache madison") :
                  /\ j < i
                  /\ \E k \in 1..Len(trace[j].out) :
                       HasAt(trace[j].out, k, <<"|">>)
                       /\ \E l \in k + 1..Len(trace[j].out) :
                            HasAt(trace[j].out, l, trace[i].arg \o <<"-">>)

\* A completed run that installed on a control host and on two workers.
C8_Witness ==
  /\ Completed
  /\ Len(ListedWorkers) >= 2
  /\ Cardinality(Cmds("apt-get install kubelet kubectl")) >= 3

\* A version query that succeeded and printed nothing the parser accepts.
UnparsedSources(e) ==
  /\ e.kind = "cmd" /\ e.cmd = "cat" /\ e.status = 0
  /\ SearchSourcesVersion(Strip(e.out)) = NoMatch

UnparsedMadison(e) ==
  /\ e.kind = "cmd" /\ e.cmd = "apt-cache madison" /\ e.status = 0
  /\ SearchMadisonVersion(Strip(e.out)) = NoMatch

C10_MinorIsTruncatedFull ==
  \A i \in Cmds("sed -i") :
    LET m == trace[i].arg
        full == latest_version
    IN  /\ Cardinality({k \in 1..Len(m) : m[k] = "."}) = 1
        /\ Len(full) > Len(m) + 1
        /\ SubSeq(full, 1, Len(m) + 1) = m \o <<".">>
        /\ \A k \in Len(m) + 2..Len(full) : full[k] \in Digits
        /\ full = <<"1", ".", "2", "9", ".", "4">> => m = <<"1", ".", "2", "9">>
        /\ full = <<"2", ".", "0", ".", "1", "0">> => m = <<"2", ".", "0">>
        /\ \A j \in 1..Len(trace) :
             IsCmd(trace[j]) /\ trace[j].cmd \in VersionedCmds =>
               IsPrefix(m \o <<".">>, trace[j].arg)

\* Sources read as 1.28, index says 2.0.10: 2.0 is written and 2.0.10 installed.
C10_Witness ==
  /\ current_version = <<"1", ".", "2", "8">>
  /\ \E i \in Cmds("sed -i") : trace[i].arg = <<"2", ".", "0">>
  /\ \E j \in Cmds("apt-get install kubeadm") :
       trace[j].arg = <<"2", ".", "0", ".", "1", "0">>
  /\ Len(ListedAll) >= 2


\* C11: of two successive successful runs of the rewriter with one target the
\* second leaves the file as the first left it, and every call has run its
\* sed command.
C11_RewriteIdempotent ==
  /\ Len(rewrites) = rewrite_calls
  /\ \A i \in 1..Len(rewrites) - 1 :
       rewrites[i].status = 0 /\ rewrites[i + 1].status = 0
         => rewrites[i + 1].content = rewrites[i].content

\* Two successful runs in a row, the first of which changed a two-line file.
C11_Witness ==
  /\ Len(rewrites) = 2
  /\ rewrites[1].status = 0
  /\ rewrites[2].status = 0
  /\ Len(k8s_list) = 2
  /\ \E l \in 1..2 :
       k8s_list[l] = <<"/", "v", "2", ".", "0", "/", "d", "e", "b", "/",
                       "/", "v", "1", ".", "2", "8", "/", "d", "e", "b", "/">>


\* Every line is blank or <host> <role> with a recognised role.
WellFormed(lines) ==
  \A i \in 1..Len(lines) :
    lines[i] = <<>> \/ (Len(lines[i]) = 2 /\ lines[i][2] \in {"control", "worker"})

NonBlank(line) == line # <<>>

\* C12: from a well-formed inventory read_inventory returns, without error,
\* each role's hosts in the order of their lines, every non-blank line once
\* and nothing for a blank line.
C12_InventoryRoundTrip ==
  WellFormed(inventory) /\ pc # "read_inventory" =>
    /\ ~nodes.err
    /\ nodes.control = ListedControls
    /\ nodes.worker = ListedWorkers
    /\ Len(nodes.control) + Len(nodes.worker) = Len(SelectSeq(inventory, NonBlank))
    /\ \A i \in 1..Len(inventory) :
         NonBlank(inventory[i]) =>
           \E k \in 1..Len(nodes[inventory[i][2]]) :
             nodes[inventory[i][2]][k] = inventory[i][1]

\* A worker line, a blank line and a control line have been read.
C12_Witness ==
  /\ inventory = <<<<"h2", "worker">>, <<>>, <<"h1", "control">>>>
  /\ pc = "check_control"
  /\ nodes.control = <<"h1">>
  /\ nodes.worker = <<"h2">>

\* C13: with a line of an unknown role or not of two tokens the read fails:
\* main() ends non-zero with no inventory, and has contacted nobody.
C13_BadInventoryFails ==
  ~WellFormed(inventory) /\ pc # "read_inventory" =>
    /\ pc = "done"
    /\ exit_code # 0
    /\ nodes = NoNodes
    /\ trace = <<>>
    /\ conns = <<>>
    /\ open = {}

\* A control line followed by a host with an unknown role, after the read.
C13_Witness ==
  /\ Len(inventory) = 2
  /\ inventory[1] = <<"h1", "control">>
  /\ inventory[2] = <<"h1", "etcd">>
  /\ pc = "done"


\* ---------------------------------------------------------------------
\* Properties of update-k8s-node.py, read from n_log and marker.
\* ---------------------------------------------------------------------
\* Positions of n_log that belong to run r and record an ev.
NodeEvents(r, ev) ==
  {i \in 1..Len(n_log) : n_log[i].run = r /\ n_log[i].ev = ev}

RunEnded(r) == NodeEvents(r, "end") # {}

RunReturned(r) == \E i \in NodeEvents(r, "end") : n_log[i].result = "returned"

\* C14: a status notification that was not delivered (response not ok, or the
\* HTTP call failed) does not end the run: after a failed change summary the
\* upgrade is committed, and after a committed upgrade the marker is created.
C14_NotifyNeverFatal ==
  \A i \in 1..Len(n_log) :
    LET e == n_log[i]
    IN  /\ e.ev = "post_changes" /\ e.result # "ok" /\ RunEnded(e.run)
             => NodeEvents(e.run, "commit") # {}
        /\ e.ev = "post_done" /\ e.result # "ok" /\ RunEnded(e.run)
             => NodeEvents(e.run, "touch_marker") # {}

\* C18: a run that finds the marker posts the skip notification once and
\* touches neither the package cache nor the marker; a run that finds no
\* marker and returns has created it, also with nothing to upgrade; so the
\* run after a returned run, with no reboot between them, upgrades nothing.
C18_MarkerGatesUpgrade ==
  \A r \in 1..n_run :
    LET found == {n_log[i].result : i \in NodeEvents(r, "check_marker")}
        Work == NodeEvents(r, "cache_update") \cup NodeEvents(r, "cache_upgrade")
                \cup NodeEvents(r, "commit") \cup NodeEvents(r, "touch_marker")
    IN  /\ "present" \in found =>
             /\ Work = {}
             /\ NodeEvents(r, "post_changes") \cup NodeEvents(r, "post_done") = {}
             /\ Cardinality(NodeEvents(r, "post_skip")) <= 1
             /\ RunEnded(r) => Cardinality(NodeEvents(r, "post_skip")) = 1
        /\ "absent" \in found /\ RunReturned(r) =>
             /\ NodeEvents(r, "touch_marker") # {}
             /\ (n_run = r /\ NodeEvents(r, "reboot") = {}) => marker
        /\ (r > 1 /\ "absent" \in {n_log[i].result : i \in NodeEvents(r - 1, "check_marker")}
              /\ RunReturned(r - 1) /\ NodeEvents(r - 1, "reboot") = {}) =>
             /\ Work = {}
             /\ found \subseteq {"present"}

\* A run with nothing to upgrade returned, and the next run has skipped.
C18_Witness ==
  /\ n_run = 2
  /\ n_pc = "idle"
  /\ \E i \in NodeEvents(1, "cache_upgrade") : n_log[i].pkgs = <<>>
  /\ RunReturned(1)
  /\ NodeEvents(2, "post_skip") # {}
  /\ RunEnded(2)


\* ---------------------------------------------------------------------
\* Termination of the fleet run.
\* ---------------------------------------------------------------------
\* A step that ends the run: a failed command, connection or config load, or
\* a version query whose output the parser rejects.
IsFailure(e) == e.status # 0 \/ UnparsedSources(e) \/ UnparsedMadison(e)

\* The run ended the way main() returns: nothing failed, every rewrite and
\* every upgrade the loops were to run has succeeded.
TerminalCompleted ==
  /\ exit_code = 0
  /\ \A i \in 1..Len(trace) : ~IsFailure(trace[i])
  /\ HostsOf(CmdEvents, "sed -i") = ListedAll
  /\ HostsOf(CmdEvents, "apt-mark hold") = <<ListedControls[1]>> \o ListedWorkers
  /\ open = {}

\* The run ended at its first failure: that step is the last of the trace,
\* or the inventory was rejected (unreadable line, no control host) and
\* nothing was attempted.
TerminalAborted ==
  /\ exit_code # 0
  /\ \/ trace = <<>>
     \/ /\ trace # <<>>
        /\ IsFailure(trace[Len(trace)])
        /\ \A i \in 1..Len(trace) - 1 : ~IsFailure(trace[i])

\* No remote command is run twice on a host.
NoStepRepeated ==
  \A i, j \in 1..Len(trace) :
    (i < j /\ IsCmd(trace[i]) /\ IsCmd(trace[j]) /\ trace[i].host = trace[j].host)
      => trace[i].cmd # trace[j].cmd

ManagedPackages == {"kubeadm", "kubelet", "kubectl"}

\* Positions of the trace where cmd was issued on host h.
CmdsOn(h, cmd) == {i \in Cmds(cmd) : trace[i].host = h}

\* Packages of host h that may be without a hold after the trace, when all
\* of ManagedPackages were held before it: those an unhold named (whatever
\* its status) that no later successful hold has named.
Unheld(h) ==
  {p \in ManagedPackages :
     \E u \in CmdsOn(h, "apt-mark unhold") :
       /\ p \in PackagesOf("apt-mark unhold")
       /\ ~\E k \in CmdsOn(h, "apt-mark hold") :
             k > u /\ trace[k].status = 0 /\ p \in PackagesOf("apt-mark hold")}

InstallCmds == {"apt-get install kubeadm", "apt-get install kubelet kubectl"}

\* C16: on every host, each install of a managed package comes after a
\* successful unhold naming that package and before any hold; the hold comes
\* after the kubelet restart succeeded and uncordon after the hold succeeded;
\* a call of the procedure that has returned leaves all three packages held;
\* and a package is without a hold only while the procedure is running on
\* that host or after the run aborted there between unhold and hold.
C16_PackagePin ==
  \A h \in Hosts :
    /\ \A cmd \in InstallCmds : \A i \in CmdsOn(h, cmd) :
         /\ PackagesOf(cmd) \subseteq ManagedPackages
         /\ \E u \in CmdsOn(h, "apt-mark unhold") :
              u < i /\ trace[u].status = 0
              /\ PackagesOf(cmd) \subseteq PackagesOf("apt-mark unhold")
         /\ \A k \in CmdsOn(h, "apt-mark hold") : k > i
    /\ \A k \in CmdsOn(h, "apt-mark hold") :
         \E r \in CmdsOn(h, "systemctl restart kubelet") :
           r < k /\ trace[r].status = 0
    /\ \A n \in CmdsOn(h, "kubectl uncordon") :
         \E k \in CmdsOn(h, "apt-mark hold") : k < n /\ trace[k].status = 0
    /\ (ustep = "return" /\ call.host = h) =>
         CmdsOn(h, "apt-mark unhold") # {} /\ Unheld(h) = {}
    /\ Completed => Unheld(h) = {}
    /\ Unheld(h) # {} =>
         /\ call # NoCall /\ call.host = h
         /\ pc = "done" =>
              /\ exit_code # 0
              /\ IsFailedCmd(trace[Len(trace)])
              /\ trace[Len(trace)].host = h
              /\ trace[Len(trace)].cmd \in
                   {ControlOrder[i] : i \in 1..Len(ControlOrder)} \ {"kubectl uncordon"}

\* The control host and the first worker are held again and the run aborted
\* on the second worker after its unhold.
C16_Witness ==
  /\ pc = "done"
  /\ Len(ListedWorkers) >= 2
  /\ Unheld(ListedControls[1]) = {}
  /\ CmdsOn(ListedWorkers[1], "apt-mark hold") # {}
  /\ Unheld(ListedWorkers[1]) = {}
  /\ Unheld(ListedWorkers[2]) = ManagedPackages
  /\ trace[Len(trace)].cmd = "apt-get install kubelet kubectl"


\* ---------------------------------------------------------------------
\* Resolution of the connection parameters.
\* ---------------------------------------------------------------------
\* Positions of the trace where get_ssh_params was called for host h.
ParamsCalls(h) ==
  {i \in 1..Len(trace) : trace[i].kind = "get_ssh_params" /\ trace[i].host = h}

\* C17 as stated: get_ssh_params is called at most once for a host in a run.
C17_ParamsOncePerHost ==
  \A h \in Hosts : Cardinality(ParamsCalls(h)) <= 1

\* C17 amended: get_ssh_params is called once for every session, directly
\* before its ssh_connect, which is given the tuple just returned; a host is
\* resolved at most twice in a run (for its rewrite session and for its
\* upgrade or version session), each time to the same tuple; in a completed
\* run the first control host and every worker were resolved twice and every
\* further control host once.
C17_ParamsPerSession ==
  /\ \A i \in 1..Len(trace) :
       /\ trace[i].kind = "connect" =>
            /\ i > 1
            /\ trace[i - 1].kind = "get_ssh_params"
            /\ trace[i - 1].host = trace[i].host
            /\ trace[i - 1].out = trace[i].arg
       /\ trace[i].kind = "get_ssh_params" =>
            /\ i < Len(trace)
            /\ trace[i + 1].kind = "connect"
  /\ \A h \in Hosts :
       /\ Cardinality(ParamsCalls(h)) <= 2
       /\ \A i, j \in ParamsCalls(h) : trace[i].out = trace[j].out
       /\ Completed =>
            Cardinality(ParamsCalls(h)) =
              IF h = ListedControls[1] \/ \E w \in 1..Len(ListedWorkers) : ListedWorkers[w] = h
              THEN 2
              ELSE IF \E k \in 1..Len(ListedControls) : ListedControls[k] = h
                   THEN 1 ELSE 0

\* A completed run over a second control host and a worker whose tuple
\* differs from the first control host's.
C17_Witness ==
  /\ Completed
  /\ Len(ListedControls) >= 2
  /\ Len(ListedWorkers) >= 1
  /\ Cardinality(ParamsCalls(ListedControls[1])) = 2
  /\ Cardinality(ParamsCalls(ListedControls[2])) = 1
  /\ Cardinality(ParamsCalls(ListedWorkers[1])) = 2
  /\ \E i \in ParamsCalls(ListedControls[1]), j \in ParamsCalls(ListedWorkers[1]) :
       trace[i].out # trace[j].out


\* ---------------------------------------------------------------------
\* Properties of scripts/update-ebuild/main.py, read from e_log and pkgdir.
\* ---------------------------------------------------------------------
\* Positions of e_log that belong to run r and record an ev.
EEvents(r, ev) ==
  {i \in 1..Len(e_log) : e_log[i].run = r /\ e_log[i].ev = ev}

\* Positions where run r created a file.
Created(r) == {i \in EEvents(r, "write") : e_log[i].result = "created"}

\* Upstream published nothing new between the end of run r and run r + 1.
UpstreamUnchangedAfter(r) == EEvents(r, "upstream_change") = {}

\* A step leaves every ebuild of the directory as it is, and adds a file
\* only as the write of the running script: the file of the version just
\* decided, which was not there, recorded as created.
EbuildFrame ==
  /\ \A n \in DOMAIN pkgdir.files :
       IsEbuildFile(n) => /\ n \in DOMAIN pkgdir'.files
                          /\ pkgdir'.files[n] = pkgdir.files[n]
  /\ \A n \in DOMAIN pkgdir'.files \ DOMAIN pkgdir.files :
       \/ n = ManifestName
       \/ /\ n = EbuildName(Pn, newpv)
          /\ e_log' = Append(e_log, EEv(e_run, "write", "created", n))
  /\ (Len(e_log') > Len(e_log) /\ e_log'[Len(e_log')].ev = "write"
        /\ e_log'[Len(e_log')].result = "created")
       => e_log'[Len(e_log')].arg \notin DOMAIN pkgdir.files

\* A run creates at most one file, none for a version its directory listing
\* had, and runs the manifest command only directly after creating a file.
EbuildRunEffects ==
  /\ \A r \in 1..e_run :
       /\ Cardinality(Created(r)) <= 1
       /\ \A i \in Created(r) :
            \E st \in EEvents(r, "start"), d \in EEvents(r, "decide") :
              /\ e_log[i].arg = EbuildName(Pn, e_log[d].arg)
              /\ e_log[d].arg \notin Elems(e_log[st].arg)
              /\ e_log[i].arg \in DOMAIN pkgdir.files
  /\ \A i \in 1..Len(e_log) :
       e_log[i].ev = "manifest" =>
         /\ i > 1
         /\ e_log[i - 1].ev = "write"
         /\ e_log[i - 1].result = "created"
         /\ e_log[i - 1].run = e_log[i].run
         /\ e_log[i - 1].arg = e_log[i].arg

\* Run r returned from main().
EbuildReturned(r) ==
  \E i \in EEvents(r, "end") : e_log[i].result = "returned"

C20_FallbackOrder ==
  \A r \in 1..e_run :
    /\ \A t \in EEvents(r, "tags_query") :
         /\ t > 1
         /\ e_log[t - 1].run = r
         /\ e_log[t - 1].ev = "release_query"
         /\ e_log[t - 1].result \in {"none", "failed"}
    /\ \A q \in EEvents(r, "release_query") :
         e_log[q].result = "tag" =>
           /\ e_log[q].arg = e_log[q].up.release
           /\ EEvents(r, "tags_query") = {}
           /\ \A d \in EEvents(r, "decide") :
                e_log[d].arg = normalize_tag_to_pv(e_log[q].arg)
    /\ \A d \in EEvents(r, "decide") :
         /\ EEvents(r, "release_query") # {}
         /\ \A t \in EEvents(r, "tags_query") :
              /\ e_log[t].result # "raise"
              /\ e_log[t].result = "tag" =>
                   /\ e_log[t].arg = e_log[t].up.tags[1]
                   /\ e_log[d].arg = normalize_tag_to_pv(e_log[t].arg)
              /\ e_log[t].result = "none" => e_log[d].arg = Live
         /\ EEvents(r, "tags_query") = {} =>
              \E q \in EEvents(r, "release_query") : e_log[q].result = "tag"

\* A run fell back to the tag list after the release query failed although
\* upstream has a release, and a later run created the live ebuild.
C20_Witness ==
  /\ e_run = 2
  /\ e_pc = "idle"
  /\ \E q \in EEvents(1, "release_query"), t \in EEvents(1, "tags_query") :
       /\ e_log[q].result = "failed"
       /\ e_log[q].up.release # <<>>
       /\ e_log[t].result = "tag"
  /\ Created(1) # {}
  /\ \E w \in Created(2) : e_log[w].arg = EbuildName(Pn, Live)

====
